---- MODULE Spec2Model ----
(***************************************************************************)
(* Book-review platform backend (Express + Mongoose): the authentication   *)
(* flows of routes/auth.ts over the User collection, the guard `protect`,  *)
(* and the book / review handlers with their ownership checks.             *)
(*                                                                         *)
(* A request handler is an async function: it runs atomically between two  *)
(* awaited store operations.  Each handler is therefore a chain of steps,  *)
(* one per awaited store access that matters; a request that has passed    *)
(* its first step sits in a slot of `reqs` until its last step answers.    *)
(* `resp` is the HTTP response sent by the last step (NoResp when the last *)
(* step sent none), with `wrote` telling whether that step changed the     *)
(* store.                                                                  *)
(***************************************************************************)
EXTENDS Integers, Sequences, FiniteSets, TLC

VARIABLES
    users,      \* User collection:   _id -> document
    books,      \* Book collection:   _id -> document
    reviews,    \* Review collection: _id -> document
    now,        \* Date.now(), in units of five minutes
    nextTok,    \* number of reset tokens drawn from crypto.randomBytes so far
    nextBook,   \* number of Book ObjectIds handed out so far
    nextRev,    \* number of Review ObjectIds handed out so far
    reqs,       \* slot -> the request in flight in it, or Idle
    resp,       \* the response sent by the last step
    consumed,   \* history: reset tokens a successful reset has used
    lastWritten, \* history: user _id -> reset token whose hash was saved last
    env,        \* process.env.NODE_ENV of the server process
    issued,     \* history: the session tokens sent in responses so far
    storage,    \* the frontend's localStorage item 'token'
    authState,  \* the frontend's AuthContext state
    bookList    \* the frontend's BookListPage: its state and its requests

vars == <<users, books, reviews, now, nextTok, nextBook, nextRev, reqs, resp, consumed, lastWritten,
          env, issued, storage, authState, bookList>>

Store == <<users, books, reviews>>

----------------------------------------------------------------------------
(* Bounds *)

MaxTime == 3
MaxTokens == 2

(* The reset window, 10 * 60 * 1000 ms, in clock units of five minutes. *)
ResetWindow == 2

MinPasswordLength == 6

Slots == {"r1", "r2"}

(* Syntactically valid addresses; the clients of this model register the
   addresses in Accounts only. *)
Emails == {"a@x.com", "b@x.com"}
Accounts == {"a@x.com"}
BadEmail == "not-an-email"

(* Values of NODE_ENV. *)
Envs == {"development", "production"}

Plain == {"secret1", "secret2"}
ShortPlain == "abc"
PlainLength(p) == IF p = ShortPlain THEN 3 ELSE 7

----------------------------------------------------------------------------
(* Values *)

Idle == [op |-> "idle"]
NoResp == [op |-> "none", req |-> <<>>, status |-> 0, body |-> <<>>, wrote |-> FALSE]
NoHash == <<>>
NoDate == -1
NoToken == <<>>

(* bcrypt: a one-way digest; compare recomputes it. *)
Bcrypt(p) == <<"bcrypt", p>>

(* Mutant: every entered password matches. *)
matchPasswordAny(user, enteredPassword) == TRUE

matchPassword(user, enteredPassword) == user.password = Bcrypt(enteredPassword)

(* crypto.createHash('sha256').update(token).digest('hex') *)
Sha256(t) == <<"sha256", t>>

(* The password travels AES-encrypted under the shared key. *)
encryptPassword(p) == <<"aes", p>>
Garbage == <<"garbage">>
Missing == <<>>
WirePasswords == {encryptPassword(p) : p \in Plain \cup {ShortPlain}} \cup {Garbage, Missing}
WireLength(c) == IF c = Missing THEN 0 ELSE 44
Decryptable(c) == Len(c) = 2 /\ c[1] = "aes"
decryptPassword(c) == c[2]

isEmail(e) == e \in Emails

(* utils/jwt generateToken: a signed token carrying the subject and an
   absolute expiry. *)
JwtLifetime == 2
generateToken(id) == [sub |-> id, exp |-> now + JwtLifetime, sig |-> "server"]

----------------------------------------------------------------------------
(* The frontend's AuthContext: context/ThemeContext.tsx *)

(* authReducer, without the isLoading flag; user is the _id of the
   payload, 0 for null. *)
authReducer(state, action) ==
    CASE action.type = "LOGIN_SUCCESS" ->
             [user |-> action.payload.id, token |-> action.payload.token, isAuthenticated |-> TRUE]
      [] action.type = "LOGOUT" ->
             [user |-> 0, token |-> NoToken, isAuthenticated |-> FALSE]
      [] OTHER -> state

(* initialState: read from localStorage when the module is loaded. *)
initialState == [user |-> 0, token |-> storage, isAuthenticated |-> storage # NoToken]

(* The BookListPage is not mounted. *)
NoPage == <<>>

----------------------------------------------------------------------------
(* Store queries *)

UserIds == DOMAIN users

(* User.findOne({ email }) *)
findOneByEmail(email) == {u \in UserIds : users[u].email = email}

(* Mutant: the expiry compared with $gte. *)
findOneByResetTokenGte(hash) ==
    {u \in UserIds : /\ users[u].resetPasswordToken = hash
                     /\ users[u].resetPasswordExpires # NoDate
                     /\ users[u].resetPasswordExpires >= now}

(* User.findOne({ resetPasswordToken, resetPasswordExpires: { $gt: Date.now() } }) *)
findOneByResetToken(hash) ==
    {u \in UserIds : /\ users[u].resetPasswordToken = hash
                     /\ users[u].resetPasswordExpires # NoDate
                     /\ users[u].resetPasswordExpires > now}

(* Schema validation run by save(): password minlength on the value as set. *)
passwordValid(plain) == PlainLength(plain) >= MinPasswordLength

(* Mutant: save() stores the password as it was set. *)
preSavePlain(stored, plain, isModified) == IF isModified THEN <<"plain", plain>> ELSE stored

(* Mutant: save() leaves the stored password as it is. *)
preSaveKeepsStored(stored, plain, isModified) == stored

(* pre('save'): the password is hashed when it was modified; an unmodified
   path is not part of the update save() sends. *)
preSave(stored, plain, isModified) == IF isModified THEN Bcrypt(plain) ELSE stored

----------------------------------------------------------------------------
(* Responses *)

(* res.status(status).json(body); a session token in the body has been
   issued from here on. *)
Reply(op, req, status, body) ==
    /\ resp' = [op |-> op, req |-> req, status |-> status, body |-> body,
                wrote |-> (Store' # Store)]
    /\ issued' = IF "token" \in DOMAIN body THEN issued \cup {body.token} ELSE issued

Silent == resp' = NoResp /\ issued' = issued

(* A response is read by its client before the next step is taken. *)
Ready == resp = NoResp

Observe ==
    /\ resp # NoResp
    /\ resp' = NoResp
    /\ UNCHANGED <<Store, issued, now, env, storage, authState, bookList, nextTok, nextBook, nextRev, reqs, consumed, lastWritten>>

Message(m) == [message |-> m]

(* Mutant: the token is generated for the first user of the collection. *)
AuthBodyFirstUser(u, doc) == [id |-> u, email |-> doc.email, token |-> generateToken(1)]

AuthBody(u, doc) == [id |-> u, email |-> doc.email, token |-> generateToken(u)]

Enter(s, r) == reqs' = [reqs EXCEPT ![s] = r]
Leave(s) == reqs' = [reqs EXCEPT ![s] = Idle]

----------------------------------------------------------------------------
(* POST /api/auth/register *)

Register(s, email, wire) ==
    /\ Ready
    /\ reqs[s] = Idle
    /\ UNCHANGED <<Store, now, env, storage, authState, bookList, nextTok, nextBook, nextRev, consumed, lastWritten>>
    /\ LET req == [email |-> email, password |-> wire] IN
       IF ~isEmail(email) \/ WireLength(wire) < MinPasswordLength THEN
            /\ Reply("register", req, 400, Message("Validation errors"))
            /\ UNCHANGED reqs
       ELSE IF ~Decryptable(wire) THEN
            /\ Reply("register", req, 400, Message("Invalid password format"))
            /\ UNCHANGED reqs
       ELSE IF PlainLength(decryptPassword(wire)) < MinPasswordLength THEN
            /\ Reply("register", req, 400, Message("Password must be at least 6 characters"))
            /\ UNCHANGED reqs
       ELSE IF findOneByEmail(email) # {} THEN
            /\ Reply("register", req, 400, Message("User already exists"))
            /\ UNCHANGED reqs
       ELSE /\ Enter(s, [op |-> "register", pc |-> "create", req |-> req,
                         email |-> email, password |-> decryptPassword(wire)])
            /\ Silent

(* Mutant: no unique index on email. *)
noEmailIndex(email) == TRUE

(* email: { unique: true }: whether the store accepts a new document with
   this email. *)
emailIndex(email) == \A u \in UserIds : users[u].email # email

(* User.create: the unique index on email rejects a second document. *)
RegisterCreate(s) ==
    /\ Ready
    /\ reqs[s].op = "register"
    /\ UNCHANGED <<books, reviews, now, env, storage, authState, bookList, nextTok, nextBook, nextRev, consumed>>
    /\ LET r == reqs[s]
           id == Cardinality(UserIds) + 1
           doc == [email |-> r.email,
                   password |-> preSave(NoHash, r.password, TRUE),
                   resetPasswordToken |-> NoHash,
                   resetPasswordExpires |-> NoDate]
       IN IF ~emailIndex(r.email) THEN
               /\ UNCHANGED <<users, lastWritten>>
               /\ Reply("register", r.req, 500, Message("Server error"))
          ELSE /\ users' = (id :> doc) @@ users
               /\ lastWritten' = (id :> 0) @@ lastWritten
               /\ Reply("register", r.req, 201, AuthBody(id, doc))
    /\ Leave(s)

----------------------------------------------------------------------------
(* POST /api/auth/login *)

(* Mutant: an unknown email answered differently from a wrong password. *)
LoginReplyLeaky(found, plain) ==
    IF found = {} THEN [status |-> 404, body |-> Message("User not found")]
    ELSE IF matchPassword(users[CHOOSE u \in found : TRUE], plain)
    THEN LET u == CHOOSE u \in found : TRUE IN [status |-> 200, body |-> AuthBody(u, users[u])]
    ELSE [status |-> 401, body |-> Message("Invalid credentials")]

LoginReply(found, plain) ==
    IF found # {} /\ matchPassword(users[CHOOSE u \in found : TRUE], plain)
    THEN LET u == CHOOSE u \in found : TRUE IN [status |-> 200, body |-> AuthBody(u, users[u])]
    ELSE [status |-> 401, body |-> Message("Invalid credentials")]

Login(email, wire) ==
    /\ Ready
    /\ UNCHANGED <<Store, now, env, storage, authState, bookList, nextTok, nextBook, nextRev, reqs, consumed, lastWritten>>
    /\ LET req == [email |-> email, password |-> wire] IN
       IF ~isEmail(email) \/ wire = Missing THEN
            Reply("login", req, 400, Message("Validation errors"))
       ELSE IF ~Decryptable(wire) THEN
            Reply("login", req, 400, Message("Invalid password format"))
       ELSE LET r == LoginReply(findOneByEmail(email), decryptPassword(wire))
            IN Reply("login", req, r.status, r.body)

----------------------------------------------------------------------------
(* POST /api/auth/forgot-password *)

GenericForgotBody ==
    Message("If an account with that email exists, a password reset link has been sent.")

(* user.generatePasswordResetToken(): a fresh random token; its hash and
   the expiry are set on the loaded document. *)
generatePasswordResetToken(t) ==
    [token |-> t, hash |-> Sha256(t), expires |-> now + ResetWindow]

ForgotReply(found, t) ==
    IF found THEN [message |-> "Password reset token generated", resetToken |-> t]
    ELSE GenericForgotBody

ForgotPassword(s, email) ==
    /\ Ready
    /\ reqs[s] = Idle
    /\ UNCHANGED <<Store, now, env, storage, authState, bookList, nextBook, nextRev, consumed, lastWritten>>
    /\ LET req == [email |-> email]
           found == findOneByEmail(email)
       IN IF ~isEmail(email) THEN
               /\ Reply("forgot", req, 400, Message("Validation errors"))
               /\ UNCHANGED <<reqs, nextTok>>
          ELSE IF found = {} THEN
               /\ Reply("forgot", req, 200, ForgotReply(FALSE, 0))
               /\ UNCHANGED <<reqs, nextTok>>
          ELSE /\ nextTok < MaxTokens
               /\ nextTok' = nextTok + 1
               /\ Enter(s, [op |-> "forgot", pc |-> "save", req |-> req,
                            uid |-> CHOOSE u \in found : TRUE,
                            reset |-> generatePasswordResetToken(nextTok + 1)])
               /\ Silent

(* Mutant: a token already stored is kept, only the expiry is renewed. *)
ForgotSaveDocKeepsOld(doc, reset) ==
    [doc EXCEPT !.resetPasswordToken =
                    IF doc.resetPasswordToken = NoHash THEN reset.hash ELSE doc.resetPasswordToken,
                !.resetPasswordExpires = reset.expires]

(* Mutant: the save hook hashes as if the password path were modified. *)
ForgotSaveDocRehash(doc, reset) ==
    [doc EXCEPT !.password = preSave(doc.password, "", TRUE),
                !.resetPasswordToken = reset.hash,
                !.resetPasswordExpires = reset.expires]

(* user.save({ validateBeforeSave: false }): sends the two modified paths. *)
ForgotSaveDoc(doc, reset) ==
    [doc EXCEPT !.password = preSave(doc.password, "", FALSE),
                !.resetPasswordToken = reset.hash,
                !.resetPasswordExpires = reset.expires]

ForgotSave(s) ==
    /\ Ready
    /\ reqs[s].op = "forgot"
    /\ UNCHANGED <<books, reviews, now, env, storage, authState, bookList, nextTok, nextBook, nextRev, consumed>>
    /\ LET r == reqs[s] IN
       /\ users' = [users EXCEPT ![r.uid] = ForgotSaveDoc(users[r.uid], r.reset)]
       /\ lastWritten' = [lastWritten EXCEPT ![r.uid] = r.reset.token]
       /\ Reply("forgot", r.req, 200, ForgotReply(TRUE, r.reset.token))
    /\ Leave(s)

----------------------------------------------------------------------------
(* PUT /api/auth/reset-password/:token *)

(* History, kept in the request: whether the token had been used by a
   successful reset when the request arrived (reuse), and whether some
   user's stored hash was the token's and the clock strictly before that
   user's stored expiry when the handler looked the token up (valid). *)
TokenValid(t) ==
    \E u \in UserIds : /\ users[u].resetPasswordToken = Sha256(t)
                        /\ now < users[u].resetPasswordExpires

ResetPassword(s, t, wire) ==
    /\ Ready
    /\ reqs[s] = Idle
    /\ UNCHANGED <<Store, now, env, storage, authState, bookList, nextTok, nextBook, nextRev, consumed, lastWritten>>
    /\ LET req == [token |-> t, password |-> wire,
                   reuse |-> t \in consumed, valid |-> TokenValid(t)]
           found == findOneByResetToken(Sha256(t))
       IN IF WireLength(wire) < MinPasswordLength THEN
               /\ Reply("reset", req, 400, Message("Validation errors"))
               /\ UNCHANGED reqs
          ELSE IF ~Decryptable(wire) THEN
               /\ Reply("reset", req, 400, Message("Invalid password format"))
               /\ UNCHANGED reqs
          ELSE IF found = {} THEN
               /\ Reply("reset", req, 400, Message("Invalid or expired reset token"))
               /\ UNCHANGED reqs
          ELSE /\ Enter(s, [op |-> "reset", pc |-> "save", req |-> req,
                            uid |-> CHOOSE u \in found : TRUE,
                            password |-> decryptPassword(wire)])
               /\ Silent

(* Mutant: the reset-token fields are not cleared. *)
ResetSaveDocKeepsToken(doc, plain) ==
    [doc EXCEPT !.password = preSave(doc.password, plain, TRUE)]

(* Mutant: only the token hash is cleared. *)
ResetSaveDocKeepsExpiry(doc, plain) ==
    [doc EXCEPT !.password = preSave(doc.password, plain, TRUE),
                !.resetPasswordToken = NoHash]

(* user.save(): validation, then the password and the two cleared paths. *)
ResetSaveDoc(doc, plain) ==
    [doc EXCEPT !.password = preSave(doc.password, plain, TRUE),
                !.resetPasswordToken = NoHash,
                !.resetPasswordExpires = NoDate]

ResetSave(s) ==
    /\ Ready
    /\ reqs[s].op = "reset"
    /\ UNCHANGED <<books, reviews, now, env, storage, authState, bookList, nextTok, nextBook, nextRev, lastWritten>>
    /\ LET r == reqs[s] IN
       IF ~passwordValid(r.password) THEN
            /\ UNCHANGED <<users, consumed>>
            /\ Reply("reset", r.req, 500, Message("Server error"))
       ELSE /\ users' = [users EXCEPT ![r.uid] = ResetSaveDoc(users[r.uid], r.password)]
            /\ consumed' = consumed \cup {r.req.token}
            /\ Reply("reset", r.req, 200, AuthBody(r.uid, users[r.uid]))
    /\ Leave(s)

----------------------------------------------------------------------------
(* The clock *)

Tick ==
    /\ Ready
    /\ now < MaxTime
    /\ now' = now + 1
    /\ Silent
    /\ UNCHANGED <<Store, env, storage, authState, bookList, nextTok, nextBook, nextRev, reqs, consumed, lastWritten>>

----------------------------------------------------------------------------
(* The authentication flows over an empty database *)

Init ==
    /\ users = <<>>
    /\ books = <<>>
    /\ reviews = <<>>
    /\ now = 0
    /\ nextTok = 0
    /\ nextBook = 0
    /\ nextRev = 0
    /\ reqs = [s \in Slots |-> Idle]
    /\ resp = NoResp
    /\ consumed = {}
    /\ lastWritten = <<>>
    /\ env = "development"
    /\ issued = {}
    /\ storage = NoToken
    /\ authState = initialState
    /\ bookList = NoPage

Tokens == 1 .. MaxTokens

Next ==
    \/ \E s \in Slots, e \in Accounts \cup {BadEmail}, w \in WirePasswords : Register(s, e, w)
    \/ \E s \in Slots : RegisterCreate(s)
    \/ \E e \in Emails \cup {BadEmail}, w \in WirePasswords : Login(e, w)
    \/ \E s \in Slots, e \in Emails \cup {BadEmail} : ForgotPassword(s, e)
    \/ \E s \in Slots : ForgotSave(s)
    \/ \E s \in Slots, t \in Tokens, w \in WirePasswords : ResetPassword(s, t, w)
    \/ \E s \in Slots : ResetSave(s)
    \/ Tick
    \/ Observe

Spec == Init /\ [][Next]_vars

----------------------------------------------------------------------------
(* middleware/auth.ts: protect *)

NoHeader == <<>>
Bearer(j) == <<"Bearer", j>>
Jwt(sub, exp, sig) == [sub |-> sub, exp |-> exp, sig |-> sig]

(* Mutant: the expiry of the token is not looked at. *)
jwtVerifyNoExpiry(j) == j.sig = "server"

(* jwt.verify: the signature is the server's and the expiry is ahead. *)
jwtVerify(j) == j.sig = "server" /\ now < j.exp

Deny(m) == [ok |-> FALSE, user |-> 0, message |-> m]

(* Mutant: every token is turned down once a password reset has succeeded. *)
protectRevoking(h) ==
    IF consumed # {} THEN Deny("Not authorized, token failed")
    ELSE IF h # NoHeader /\ h[1] = "Bearer" THEN
        IF Len(h) < 2 THEN Deny("Not authorized, token failed")
        ELSE IF ~jwtVerify(h[2]) THEN Deny("Not authorized, token failed")
        ELSE IF h[2].sub \notin UserIds THEN Deny("Not authorized, user not found")
        ELSE [ok |-> TRUE, user |-> h[2].sub, message |-> ""]
    ELSE Deny("Not authorized, no token")

(* The result of the guard: next() with req.user set, or a 401. *)
protect(h) ==
    IF h # NoHeader /\ h[1] = "Bearer" THEN
        IF Len(h) < 2 THEN Deny("Not authorized, token failed")
        ELSE IF ~jwtVerify(h[2]) THEN Deny("Not authorized, token failed")
        ELSE IF h[2].sub \notin UserIds THEN Deny("Not authorized, user not found")
        ELSE [ok |-> TRUE, user |-> h[2].sub, message |-> ""]
    ELSE Deny("Not authorized, no token")

(* What the guard does with the request, in order: next() with req.user
   set, or res.status(401).json({ message }). *)
CallNext(u) == [kind |-> "next", user |-> u, status |-> 0, message |-> ""]
Send401(m) == [kind |-> "send", user |-> 0, status |-> 401, message |-> m]

(* Mutant: the catch block does not return. *)
tryBlockNoReturn(h) ==
    IF Len(h) < 2 THEN
        [effects |-> <<Send401("Not authorized, token failed")>>, returned |-> FALSE, token |-> FALSE]
    ELSE IF ~jwtVerify(h[2]) THEN
        [effects |-> <<Send401("Not authorized, token failed")>>, returned |-> FALSE, token |-> TRUE]
    ELSE IF h[2].sub \notin UserIds THEN
        [effects |-> <<Send401("Not authorized, user not found")>>, returned |-> TRUE, token |-> TRUE]
    ELSE [effects |-> <<CallNext(h[2].sub)>>, returned |-> FALSE, token |-> TRUE]

(* The try block of a request with a Bearer header: token is whether the
   variable `token` holds a value when the block is left, returned whether
   the function has returned in it. jwt.verify throws on a missing token
   as on an invalid one; after next() the function goes on. *)
tryBlock(h) ==
    IF Len(h) < 2 THEN
        [effects |-> <<Send401("Not authorized, token failed")>>, returned |-> TRUE, token |-> FALSE]
    ELSE IF ~jwtVerify(h[2]) THEN
        [effects |-> <<Send401("Not authorized, token failed")>>, returned |-> TRUE, token |-> TRUE]
    ELSE IF h[2].sub \notin UserIds THEN
        [effects |-> <<Send401("Not authorized, user not found")>>, returned |-> TRUE, token |-> TRUE]
    ELSE [effects |-> <<CallNext(h[2].sub)>>, returned |-> FALSE, token |-> TRUE]

(* The whole guard: the try block, then `if (!token)`. *)
protectTrace(h) ==
    LET t == IF h # NoHeader /\ h[1] = "Bearer" THEN tryBlock(h)
             ELSE [effects |-> <<>>, returned |-> FALSE, token |-> FALSE]
    IN IF ~t.returned /\ ~t.token
       THEN Append(t.effects, Send401("Not authorized, no token"))
       ELSE t.effects

----------------------------------------------------------------------------
(* PUT /api/auth/change-password *)

(* History, kept in the request: whether the stored hash was the hash of
   the supplied current password when the handler loaded the user
   (verified). *)

ChangePassword(s, h, wireCurrent, wireNew) ==
    /\ Ready
    /\ reqs[s] = Idle
    /\ UNCHANGED <<Store, now, env, storage, authState, bookList, nextTok, nextBook, nextRev, consumed, lastWritten>>
    /\ LET g == protect(h)
           req == [auth |-> h, current |-> wireCurrent, new |-> wireNew,
                   verified |-> /\ Decryptable(wireCurrent)
                                /\ users[g.user].password = Bcrypt(decryptPassword(wireCurrent))]
       IN IF ~g.ok THEN
               /\ Reply("changePassword", [auth |-> h], 401, Message(g.message))
               /\ UNCHANGED reqs
          ELSE IF wireCurrent = Missing \/ WireLength(wireNew) < MinPasswordLength THEN
               /\ Reply("changePassword", req, 400, Message("Validation errors"))
               /\ UNCHANGED reqs
          ELSE IF ~Decryptable(wireCurrent) \/ ~Decryptable(wireNew) THEN
               /\ Reply("changePassword", req, 400, Message("Invalid password format"))
               /\ UNCHANGED reqs
          ELSE IF ~matchPassword(users[g.user], decryptPassword(wireCurrent)) THEN
               /\ Reply("changePassword", req, 400, Message("Current password is incorrect"))
               /\ UNCHANGED reqs
          ELSE /\ Enter(s, [op |-> "changePassword", pc |-> "save", req |-> req,
                            uid |-> g.user, password |-> decryptPassword(wireNew)])
               /\ Silent

ChangePasswordSave(s) ==
    /\ Ready
    /\ reqs[s].op = "changePassword"
    /\ UNCHANGED <<books, reviews, now, env, storage, authState, bookList, nextTok, nextBook, nextRev, consumed, lastWritten>>
    /\ LET r == reqs[s] IN
       IF ~passwordValid(r.password) THEN
            /\ UNCHANGED users
            /\ Reply("changePassword", r.req, 500, Message("Server error"))
       ELSE /\ users' = [users EXCEPT ![r.uid].password = preSave(@, r.password, TRUE)]
            /\ Reply("changePassword", r.req, 200, Message("Password updated successfully"))
    /\ Leave(s)

----------------------------------------------------------------------------
(* routes/books.ts *)

MaxBooks == 1

Without(f, id) == [x \in DOMAIN f \ {id} |-> f[x]]

(* findByIdAndUpdate(id, req.body): the fields of the body are set, and
   the fields under an update operator $inc of the body are added to. *)
findByIdAndUpdate(doc, body) ==
    [k \in DOMAIN doc |->
        IF k \in DOMAIN body THEN body[k]
        ELSE IF "$inc" \in DOMAIN body /\ k \in DOMAIN body["$inc"] THEN doc[k] + body["$inc"][k]
        ELSE doc[k]]

(* Mutant: deleteOne in place of deleteMany. *)
deleteOne(bookId) ==
    LET found == {r \in DOMAIN reviews : reviews[r].bookId = bookId}
    IN IF found = {} THEN {} ELSE {CHOOSE r \in found : TRUE}

(* Review.deleteMany({ bookId }): the documents removed. *)
deleteMany(bookId) == {r \in DOMAIN reviews : reviews[r].bookId = bookId}

ownerOf(coll, id, field) == IF id \in DOMAIN coll THEN coll[id][field] ELSE 0

(* The request as the responses record it; caller and owner are what the
   guard and the first findById saw. *)
OwnedReq(h, id, body, owner) ==
    [auth |-> h, id |-> id, body |-> body, caller |-> protect(h).user, owner |-> owner]

bookBodyValid(body) == "title" \in DOMAIN body => body.title # ""

(* Mutant: the ownership check lets everyone through. *)
isOwnerAlways(owner, user) == TRUE

(* The ownership check of the four owner-only handlers. *)
isOwner(owner, user) == owner = user

(* GET /api/books/:id *)
GetBook(id) ==
    /\ Ready
    /\ UNCHANGED <<Store, now, env, storage, authState, bookList, nextTok, nextBook, nextRev, reqs, consumed, lastWritten>>
    /\ IF id \notin DOMAIN books
       THEN Reply("getBook", [id |-> id], 404, Message("Book not found"))
       ELSE Reply("getBook", [id |-> id], 200,
                  [book |-> books[id],
                   reviews |-> {r \in DOMAIN reviews : reviews[r].bookId = id}])

(* POST /api/books *)
CreateBook(h, title) ==
    /\ Ready
    /\ UNCHANGED <<users, reviews, now, env, storage, authState, bookList, nextTok, nextRev, reqs, consumed, lastWritten>>
    /\ LET g == protect(h)
           req == [auth |-> h, body |-> [title |-> title]]
           id == nextBook + 1
       IN IF ~g.ok THEN
               /\ UNCHANGED <<books, nextBook>>
               /\ Reply("createBook", [auth |-> h], 401, Message(g.message))
          ELSE IF title = "" THEN
               /\ UNCHANGED <<books, nextBook>>
               /\ Reply("createBook", req, 400, Message("Validation errors"))
          ELSE /\ nextBook < MaxBooks
               /\ nextBook' = id
               /\ books' = (id :> [addedBy |-> g.user, title |-> title]) @@ books
               /\ Reply("createBook", req, 201, [id |-> id])

(* PUT /api/books/:id *)
UpdateBook(s, h, id, body) ==
    /\ Ready
    /\ reqs[s] = Idle
    /\ UNCHANGED <<Store, now, env, storage, authState, bookList, nextTok, nextBook, nextRev, consumed, lastWritten>>
    /\ LET g == protect(h)
           req == OwnedReq(h, id, body, ownerOf(books, id, "addedBy"))
       IN IF ~g.ok THEN
               /\ Reply("updateBook", [auth |-> h], 401, Message(g.message))
               /\ UNCHANGED reqs
          ELSE IF ~bookBodyValid(body) THEN
               /\ Reply("updateBook", req, 400, Message("Validation errors"))
               /\ UNCHANGED reqs
          ELSE IF id \notin DOMAIN books THEN
               /\ Reply("updateBook", req, 404, Message("Book not found"))
               /\ UNCHANGED reqs
          ELSE IF ~isOwner(books[id].addedBy, g.user) THEN
               /\ Reply("updateBook", req, 403, Message("Not authorized to update this book"))
               /\ UNCHANGED reqs
          ELSE /\ Enter(s, [op |-> "updateBook", pc |-> "update", req |-> req])
               /\ Silent

UpdateBookWrite(s) ==
    /\ Ready
    /\ reqs[s].op = "updateBook"
    /\ UNCHANGED <<users, reviews, now, env, storage, authState, bookList, nextTok, nextBook, nextRev, consumed, lastWritten>>
    /\ LET r == reqs[s].req IN
       IF r.id \notin DOMAIN books THEN
            /\ UNCHANGED books
            /\ Reply("updateBook", r, 200, <<>>)
       ELSE /\ books' = [books EXCEPT ![r.id] = findByIdAndUpdate(@, r.body)]
            /\ Reply("updateBook", r, 200, [id |-> r.id])
    /\ Leave(s)

(* DELETE /api/books/:id *)
DeleteBook(s, h, id) ==
    /\ Ready
    /\ reqs[s] = Idle
    /\ UNCHANGED <<Store, now, env, storage, authState, bookList, nextTok, nextBook, nextRev, consumed, lastWritten>>
    /\ LET g == protect(h)
           req == OwnedReq(h, id, <<>>, ownerOf(books, id, "addedBy"))
       IN IF ~g.ok THEN
               /\ Reply("deleteBook", [auth |-> h], 401, Message(g.message))
               /\ UNCHANGED reqs
          ELSE IF id \notin DOMAIN books THEN
               /\ Reply("deleteBook", req, 404, Message("Book not found"))
               /\ UNCHANGED reqs
          ELSE IF ~isOwner(books[id].addedBy, g.user) THEN
               /\ Reply("deleteBook", req, 403, Message("Not authorized to delete this book"))
               /\ UNCHANGED reqs
          ELSE /\ Enter(s, [op |-> "deleteBook", pc |-> "book", req |-> req])
               /\ Silent

(* Book.findByIdAndDelete *)
DeleteBookDoc(s) ==
    /\ Ready
    /\ reqs[s].op = "deleteBook" /\ reqs[s].pc = "book"
    /\ books' = Without(books, reqs[s].req.id)
    /\ Enter(s, [reqs[s] EXCEPT !.pc = "reviews"])
    /\ Silent
    /\ UNCHANGED <<users, reviews, now, env, storage, authState, bookList, nextTok, nextBook, nextRev, consumed, lastWritten>>

(* Review.deleteMany, then the answer *)
DeleteBookReviews(s) ==
    /\ Ready
    /\ reqs[s].op = "deleteBook" /\ reqs[s].pc = "reviews"
    /\ UNCHANGED <<users, books, now, env, storage, authState, bookList, nextTok, nextBook, nextRev, consumed, lastWritten>>
    /\ LET r == reqs[s].req IN
       /\ reviews' = [x \in DOMAIN reviews \ deleteMany(r.id) |-> reviews[x]]
       /\ Reply("deleteBook", r, 200, Message("Book and associated reviews deleted successfully"))
    /\ Leave(s)

(* Review.deleteMany rejects (the store is unreachable or the operation
   times out): the catch block answers, the book is already removed. *)
DeleteBookReviewsFail(s) ==
    /\ Ready
    /\ reqs[s].op = "deleteBook" /\ reqs[s].pc = "reviews"
    /\ UNCHANGED <<Store, now, env, storage, authState, bookList, nextTok, nextBook, nextRev, consumed, lastWritten>>
    /\ Reply("deleteBook", reqs[s].req, 500, Message("Server error"))
    /\ Leave(s)

----------------------------------------------------------------------------
(* routes/books.ts: GET /api/books *)

DefaultPage == 1
DefaultLimit == 5
MaxLimit == 50

(* A query parameter: <<>> when absent, <<n>> when given. *)
NoParam == <<>>

(* query('page').optional().isInt({ min: 1 }) and
   query('limit').optional().isInt({ min: 1, max: 50 }) *)
listQueryValid(p, l) ==
    /\ p # NoParam => p[1] >= 1
    /\ l # NoParam => l[1] >= 1 /\ l[1] <= MaxLimit

(* parseInt(req.query.x) || d *)
parseOr(x, d) == IF x = NoParam \/ x[1] = 0 THEN d ELSE x[1]

(* Mutant: the pages are skipped up to and including the one asked for. *)
skipThrough(page, limit) == page * limit

skip(page, limit) == (page - 1) * limit

(* Math.ceil(total / limit) *)
ceil(total, limit) ==
    CHOOSE n \in 0 .. total : n * limit >= total /\ (n > 0 => (n - 1) * limit < total)

(* The documents the query selects: all of them, or those of the genre. *)
matching(genre) == {b \in DOMAIN books : genre = "" \/ books[b].genre = genre}

(* .sort({ createdAt: -1 }): newest first; an _id is larger the later
   its book was created. *)
newestFirst(S) ==
    [i \in 1 .. Cardinality(S) |-> CHOOSE b \in S : Cardinality({c \in S : c > b}) = i - 1]

(* Book.find(query).sort(...).limit(limit).skip(skip) *)
find(genre, limit, skipped) ==
    LET all == newestFirst(matching(genre))
        last == IF skipped + limit < Len(all) THEN skipped + limit ELSE Len(all)
    IN SubSeq(all, skipped + 1, last)

(* The body of the 200 answer; Book.countDocuments(query) is the total. *)
ListResponse(p, l, genre) ==
    LET page == parseOr(p, DefaultPage)
        limit == parseOr(l, DefaultLimit)
        total == Cardinality(matching(genre))
    IN [books |-> find(genre, limit, skip(page, limit)),
        currentPage |-> page,
        totalPages |-> ceil(total, limit),
        totalBooks |-> total]

GetBooks(p, l, genre) ==
    /\ Ready
    /\ UNCHANGED <<Store, now, env, storage, authState, bookList, nextTok, nextBook, nextRev, reqs, consumed, lastWritten>>
    /\ LET req == [page |-> p, limit |-> l, genre |-> genre] IN
       IF ~listQueryValid(p, l)
       THEN Reply("getBooks", req, 400, Message("Validation errors"))
       ELSE Reply("getBooks", req, 200, ListResponse(p, l, genre))

----------------------------------------------------------------------------
(* routes/reviews.ts *)

MaxReviews == 2

(* Mutant: no unique index. *)
noIndex(id, doc) == TRUE

(* reviewSchema.index({ bookId: 1, userId: 1 }, { unique: true }): whether
   the store accepts `doc` as the document with this _id. *)
uniqueIndex(id, doc) ==
    \A r \in DOMAIN reviews \ {id} :
        <<reviews[r].bookId, reviews[r].userId>> # <<doc.bookId, doc.userId>>

MinRating == 1
MaxRating == 5

(* isInt({ min: 1, max: 5 }) *)
ratingValid(rating) == rating >= MinRating /\ rating <= MaxRating

reviewBodyValid(body) == "rating" \in DOMAIN body => ratingValid(body.rating)

(* Review.findOne({ bookId, userId }) *)
existingReview(bookId, userId) ==
    {r \in DOMAIN reviews : reviews[r].bookId = bookId /\ reviews[r].userId = userId}

(* POST /api/reviews *)
CreateReview(s, h, bookId, rating) ==
    /\ Ready
    /\ reqs[s] = Idle
    /\ UNCHANGED <<Store, now, env, storage, authState, bookList, nextTok, nextBook, nextRev, consumed, lastWritten>>
    /\ LET g == protect(h)
           req == [auth |-> h, caller |-> g.user,
                   body |-> [bookId |-> bookId, rating |-> rating]]
       IN IF ~g.ok THEN
               /\ Reply("createReview", [auth |-> h], 401, Message(g.message))
               /\ UNCHANGED reqs
          ELSE IF ~ratingValid(rating) THEN
               /\ Reply("createReview", req, 400, Message("Validation errors"))
               /\ UNCHANGED reqs
          ELSE IF bookId \notin DOMAIN books THEN
               /\ Reply("createReview", req, 404, Message("Book not found"))
               /\ UNCHANGED reqs
          ELSE /\ Enter(s, [op |-> "createReview", pc |-> "check", req |-> req])
               /\ Silent

(* The application-level check: Review.findOne({ bookId, userId }) *)
CreateReviewCheck(s) ==
    /\ Ready
    /\ reqs[s].op = "createReview" /\ reqs[s].pc = "check"
    /\ UNCHANGED <<Store, now, env, storage, authState, bookList, nextTok, nextBook, nextRev, consumed, lastWritten>>
    /\ LET r == reqs[s].req IN
       IF existingReview(r.body.bookId, r.caller) # {} THEN
            /\ Reply("createReview", r, 400, Message("You have already reviewed this book"))
            /\ Leave(s)
       ELSE /\ Enter(s, [reqs[s] EXCEPT !.pc = "save"])
            /\ Silent

(* review.save(): the insert, which the unique index may reject *)
CreateReviewSave(s) ==
    /\ Ready
    /\ reqs[s].op = "createReview" /\ reqs[s].pc = "save"
    /\ UNCHANGED <<users, books, now, env, storage, authState, bookList, nextTok, nextBook, consumed, lastWritten>>
    /\ LET r == reqs[s].req
           id == nextRev + 1
           doc == [bookId |-> r.body.bookId, userId |-> r.caller, rating |-> r.body.rating]
       IN IF ~uniqueIndex(id, doc) THEN
               /\ UNCHANGED <<reviews, nextRev>>
               /\ Reply("createReview", r, 500, Message("Server error"))
          ELSE /\ nextRev < MaxReviews
               /\ nextRev' = id
               /\ reviews' = (id :> doc) @@ reviews
               /\ Reply("createReview", r, 201, [id |-> id])
    /\ Leave(s)

(* PUT /api/reviews/:id *)
UpdateReview(s, h, id, body) ==
    /\ Ready
    /\ reqs[s] = Idle
    /\ UNCHANGED <<Store, now, env, storage, authState, bookList, nextTok, nextBook, nextRev, consumed, lastWritten>>
    /\ LET g == protect(h)
           req == OwnedReq(h, id, body, ownerOf(reviews, id, "userId"))
       IN IF ~g.ok THEN
               /\ Reply("updateReview", [auth |-> h], 401, Message(g.message))
               /\ UNCHANGED reqs
          ELSE IF ~reviewBodyValid(body) THEN
               /\ Reply("updateReview", req, 400, Message("Validation errors"))
               /\ UNCHANGED reqs
          ELSE IF id \notin DOMAIN reviews THEN
               /\ Reply("updateReview", req, 404, Message("Review not found"))
               /\ UNCHANGED reqs
          ELSE IF ~isOwner(reviews[id].userId, g.user) THEN
               /\ Reply("updateReview", req, 403, Message("Not authorized to update this review"))
               /\ UNCHANGED reqs
          ELSE /\ Enter(s, [op |-> "updateReview", pc |-> "update", req |-> req])
               /\ Silent

UpdateReviewWrite(s) ==
    /\ Ready
    /\ reqs[s].op = "updateReview"
    /\ UNCHANGED <<users, books, now, env, storage, authState, bookList, nextTok, nextBook, nextRev, consumed, lastWritten>>
    /\ LET r == reqs[s].req IN
       IF r.id \notin DOMAIN reviews THEN
            /\ UNCHANGED reviews
            /\ Reply("updateReview", r, 200, <<>>)
       ELSE IF ~uniqueIndex(r.id, findByIdAndUpdate(reviews[r.id], r.body)) THEN
            /\ UNCHANGED reviews
            /\ Reply("updateReview", r, 500, Message("Server error"))
       ELSE /\ reviews' = [reviews EXCEPT ![r.id] = findByIdAndUpdate(@, r.body)]
            /\ Reply("updateReview", r, 200, [id |-> r.id])
    /\ Leave(s)

(* DELETE /api/reviews/:id *)
DeleteReview(s, h, id) ==
    /\ Ready
    /\ reqs[s] = Idle
    /\ UNCHANGED <<Store, now, env, storage, authState, bookList, nextTok, nextBook, nextRev, consumed, lastWritten>>
    /\ LET g == protect(h)
           req == OwnedReq(h, id, <<>>, ownerOf(reviews, id, "userId"))
       IN IF ~g.ok THEN
               /\ Reply("deleteReview", [auth |-> h], 401, Message(g.message))
               /\ UNCHANGED reqs
          ELSE IF id \notin DOMAIN reviews THEN
               /\ Reply("deleteReview", req, 404, Message("Review not found"))
               /\ UNCHANGED reqs
          ELSE IF ~isOwner(reviews[id].userId, g.user) THEN
               /\ Reply("deleteReview", req, 403, Message("Not authorized to delete this review"))
               /\ UNCHANGED reqs
          ELSE /\ Enter(s, [op |-> "deleteReview", pc |-> "delete", req |-> req])
               /\ Silent

DeleteReviewDoc(s) ==
    /\ Ready
    /\ reqs[s].op = "deleteReview"
    /\ UNCHANGED <<users, books, now, env, storage, authState, bookList, nextTok, nextBook, nextRev, consumed, lastWritten>>
    /\ reviews' = Without(reviews, reqs[s].req.id)
    /\ Reply("deleteReview", reqs[s].req, 200, Message("Review deleted successfully"))
    /\ Leave(s)

----------------------------------------------------------------------------
(* The book and review handlers over a database with registered users *)

StoreEmails == <<"a@x.com", "b@x.com">>

(* The _id of a user that is not in the collection. *)
GhostId == Len(StoreEmails) + 1

InitStore ==
    /\ users = [u \in 1 .. Len(StoreEmails) |->
                    [email |-> StoreEmails[u],
                     password |-> Bcrypt("secret1"),
                     resetPasswordToken |-> NoHash,
                     resetPasswordExpires |-> NoDate]]
    /\ books = <<>>
    /\ reviews = <<>>
    /\ now = 0
    /\ nextTok = 0
    /\ nextBook = 0
    /\ nextRev = 0
    /\ reqs = [s \in Slots |-> Idle]
    /\ resp = NoResp
    /\ consumed = {}
    /\ lastWritten = [u \in 1 .. Len(StoreEmails) |-> 0]
    /\ env = "production"
    /\ issued = {}
    /\ storage = NoToken
    /\ authState = initialState
    /\ bookList = NoPage

(* Requests come without a header, with a header that is not a bearer
   token, with `Bearer` and no token, with a malformed, a forged or an
   expired token, and with the token of a user or of the ghost. *)
UserHeaders == {Bearer(Jwt(u, JwtLifetime, "server")) : u \in 1 .. Len(StoreEmails)}

Headers ==
    {NoHeader, <<"Basic">>, <<"Bearer">>,
     Bearer(Jwt(0, 0, "malformed")),
     Bearer(Jwt(1, JwtLifetime, "forged")),
     Bearer(Jwt(1, 0, "server")),
     Bearer(Jwt(GhostId, JwtLifetime, "server"))}
    \cup UserHeaders

BookIds == 1 .. MaxBooks
ReviewIds == 1 .. MaxReviews

BookBodies ==
    {[title |-> "B"], [title |-> ""]} \cup {[addedBy |-> u] : u \in 1 .. Len(StoreEmails)}

ReviewBodies ==
    {[rating |-> 5], [rating |-> 6]} \cup {[userId |-> u] : u \in 1 .. Len(StoreEmails)}

(* The book and review handlers, two requests at a time. *)
NextStore ==
    \/ \E id \in BookIds : GetBook(id)
    \/ \E h \in UserHeaders, t \in {"A", ""} : CreateBook(h, t)
    \/ \E s \in Slots, h \in UserHeaders, id \in BookIds, b \in BookBodies : UpdateBook(s, h, id, b)
    \/ \E s \in Slots : UpdateBookWrite(s)
    \/ \E s \in Slots, h \in UserHeaders, id \in BookIds : DeleteBook(s, h, id)
    \/ \E s \in Slots : DeleteBookDoc(s)
    \/ \E s \in Slots : DeleteBookReviews(s)
    \/ \E s \in Slots, h \in UserHeaders, b \in BookIds, r \in {1, 6} : CreateReview(s, h, b, r)
    \/ \E s \in Slots : CreateReviewCheck(s)
    \/ \E s \in Slots : CreateReviewSave(s)
    \/ \E s \in Slots, h \in UserHeaders, id \in ReviewIds, b \in ReviewBodies : UpdateReview(s, h, id, b)
    \/ \E s \in Slots : UpdateReviewWrite(s)
    \/ \E s \in Slots, h \in UserHeaders, id \in ReviewIds : DeleteReview(s, h, id)
    \/ \E s \in Slots : DeleteReviewDoc(s)
    \/ Observe

SpecStore == InitStore /\ [][NextStore]_vars

(* The review handlers, two requests at a time, over one book. *)
InitReviews ==
    /\ users = [u \in 1 .. Len(StoreEmails) |->
                    [email |-> StoreEmails[u],
                     password |-> Bcrypt("secret1"),
                     resetPasswordToken |-> NoHash,
                     resetPasswordExpires |-> NoDate]]
    /\ books = <<[addedBy |-> 1, title |-> "A"]>>
    /\ reviews = <<>>
    /\ now = 0
    /\ nextTok = 0
    /\ nextBook = 1
    /\ nextRev = 0
    /\ reqs = [s \in Slots |-> Idle]
    /\ resp = NoResp
    /\ consumed = {}
    /\ lastWritten = [u \in 1 .. Len(StoreEmails) |-> 0]
    /\ env = "production"
    /\ issued = {}
    /\ storage = NoToken
    /\ authState = initialState
    /\ bookList = NoPage

(* A body that holds an update operator and no rating field. *)
IncRating == [o \in {"$inc"} |-> [rating |-> 1]]

NextReviews ==
    \/ \E s \in Slots, h \in UserHeaders, r \in {1, 6} : CreateReview(s, h, 1, r)
    \/ \E s \in Slots, h \in UserHeaders, id \in ReviewIds :
           /\ id \in DOMAIN reviews => reviews[id].rating <= MaxRating
           /\ UpdateReview(s, h, id, IncRating)
    \/ \E s \in Slots : CreateReviewCheck(s)
    \/ \E s \in Slots : CreateReviewSave(s)
    \/ \E s \in Slots, h \in UserHeaders, id \in ReviewIds, b \in ReviewBodies : UpdateReview(s, h, id, b)
    \/ \E s \in Slots : UpdateReviewWrite(s)
    \/ \E s \in Slots, h \in UserHeaders, id \in ReviewIds : DeleteReview(s, h, id)
    \/ \E s \in Slots : DeleteReviewDoc(s)
    \/ Observe

SpecReviews == InitReviews /\ [][NextReviews]_vars

(* One request at a time over one book, where a store operation of the
   DELETE of a book may fail. *)
NextFaults ==
    \/ \E h \in UserHeaders, r \in {1, 6} : CreateReview("r1", h, 1, r)
    \/ CreateReviewCheck("r1")
    \/ CreateReviewSave("r1")
    \/ \E h \in UserHeaders, id \in ReviewIds, b \in ReviewBodies : UpdateReview("r1", h, id, b)
    \/ UpdateReviewWrite("r1")
    \/ \E h \in UserHeaders, id \in ReviewIds : DeleteReview("r1", h, id)
    \/ DeleteReviewDoc("r1")
    \/ \E h \in UserHeaders, id \in BookIds : DeleteBook("r1", h, id)
    \/ DeleteBookDoc("r1")
    \/ DeleteBookReviews("r1")
    \/ DeleteBookReviewsFail("r1")
    \/ Observe

SpecFaults == InitReviews /\ [][NextFaults]_vars

(* The list of books over a collection of any size up to MaxListed; all
   books but the newest are of one genre. *)
MaxListed == 26

ListedBook(b) ==
    [addedBy |-> 1, title |-> "A", genre |-> IF b < MaxListed THEN "Fiction" ELSE "Science"]

Genres == {"", "Fiction", "Science"}
PageParams == {NoParam, <<0>>, <<1>>, <<2>>, <<3>>, <<4>>}
LimitParams == {NoParam, <<0>>, <<1>>, <<5>>, <<12>>, <<50>>, <<51>>}

InitPages ==
    /\ users = [u \in 1 .. Len(StoreEmails) |->
                    [email |-> StoreEmails[u],
                     password |-> Bcrypt("secret1"),
                     resetPasswordToken |-> NoHash,
                     resetPasswordExpires |-> NoDate]]
    /\ \E total \in 0 .. MaxListed :
           /\ books = [b \in 1 .. total |-> ListedBook(b)]
           /\ nextBook = total
    /\ reviews = <<>>
    /\ now = 0
    /\ nextTok = 0
    /\ nextRev = 0
    /\ reqs = [s \in Slots |-> Idle]
    /\ resp = NoResp
    /\ consumed = {}
    /\ lastWritten = [u \in 1 .. Len(StoreEmails) |-> 0]
    /\ env = "production"
    /\ issued = {}
    /\ storage = NoToken
    /\ authState = initialState
    /\ bookList = NoPage

NextPages ==
    \/ \E p \in PageParams, l \in LimitParams, g \in Genres : GetBooks(p, l, g)
    \/ Observe

SpecPages == InitPages /\ [][NextPages]_vars

(* The frontend's list of books: pages/BookListPage.tsx.  The component's
   state, its filter (the genre of the search parameters), and the
   requests it has sent that are not answered yet.  The collection does
   not change, so a request's answer is the one GET /api/books gives when
   the answer arrives. *)

PageLimit == 12
MaxInFlight == 2

Range(s) == {s[i] : i \in DOMAIN s}

ListRequest(p, genre, isNewSearch) == [page |-> p, genre |-> genre, isNewSearch |-> isNewSearch]

(* fetchBooks up to its await: the flag is set and the request is sent. *)
fetchBooks(st, p, genre, isNewSearch) ==
    [st EXCEPT !.loading = IF isNewSearch THEN TRUE ELSE @,
               !.loadingMore = IF isNewSearch THEN @ ELSE TRUE,
               !.inflight = @ \cup {ListRequest(p, genre, isNewSearch)}]

(* useState initial values, then the effect on the search parameters at
   mount. *)
MountedPage ==
    fetchBooks([books |-> <<>>, loading |-> TRUE, loadingMore |-> FALSE,
                currentPage |-> 1, hasMore |-> TRUE, totalBooks |-> 0,
                genre |-> "", inflight |-> {}],
               1, "", TRUE)

(* The effect on the search parameters: the state is reset and the first
   page of the new filter is fetched. *)
ChangeFilter(g) ==
    /\ Ready
    /\ g # bookList.genre
    /\ Cardinality(bookList.inflight) < MaxInFlight
    /\ bookList' = fetchBooks([bookList EXCEPT !.genre = g, !.books = <<>>,
                                               !.currentPage = 1, !.hasMore = TRUE],
                              1, g, TRUE)
    /\ Silent
    /\ UNCHANGED <<Store, now, env, storage, authState, nextTok, nextBook, nextRev, reqs, consumed, lastWritten>>

(* handleScroll at the bottom of the page, loadMoreBooks *)
loadMoreBooks ==
    /\ Ready
    /\ ~bookList.loadingMore /\ bookList.hasMore
    /\ Cardinality(bookList.inflight) < MaxInFlight
    /\ bookList' = fetchBooks(bookList, bookList.currentPage + 1, bookList.genre, FALSE)
    /\ Silent
    /\ UNCHANGED <<Store, now, env, storage, authState, nextTok, nextBook, nextRev, reqs, consumed, lastWritten>>

(* setBooks of a load-more answer: the books not yet in the list are
   appended. *)
appendNew(prevBooks, responseBooks) ==
    LET fresh(b) == b \notin Range(prevBooks)
    IN prevBooks \o SelectSeq(responseBooks, fresh)

(* fetchBooks from its await on, for the answer to request r. *)
FetchArrives(r) ==
    /\ Ready
    /\ r \in bookList.inflight
    /\ LET response == ListResponse(<<r.page>>, <<PageLimit>>, r.genre) IN
       bookList' = [bookList EXCEPT
                       !.books = IF r.isNewSearch THEN response.books
                                 ELSE appendNew(@, response.books),
                       !.currentPage = response.currentPage,
                       !.totalBooks = response.totalBooks,
                       !.hasMore = response.currentPage < response.totalPages,
                       !.loading = FALSE,
                       !.loadingMore = FALSE,
                       !.inflight = @ \ {r}]
    /\ Silent
    /\ UNCHANGED <<Store, now, env, storage, authState, nextTok, nextBook, nextRev, reqs, consumed, lastWritten>>

InitList ==
    /\ users = [u \in 1 .. Len(StoreEmails) |->
                    [email |-> StoreEmails[u],
                     password |-> Bcrypt("secret1"),
                     resetPasswordToken |-> NoHash,
                     resetPasswordExpires |-> NoDate]]
    /\ \E total \in 0 .. MaxListed :
           /\ books = [b \in 1 .. total |-> ListedBook(b)]
           /\ nextBook = total
    /\ reviews = <<>>
    /\ now = 0
    /\ nextTok = 0
    /\ nextRev = 0
    /\ reqs = [s \in Slots |-> Idle]
    /\ resp = NoResp
    /\ consumed = {}
    /\ lastWritten = [u \in 1 .. Len(StoreEmails) |-> 0]
    /\ env = "production"
    /\ issued = {}
    /\ storage = NoToken
    /\ authState = initialState
    /\ bookList = MountedPage

(* The list under one filter: scrolling, and answers in any order. *)
NextScroll ==
    \/ loadMoreBooks
    \/ \E r \in bookList.inflight : FetchArrives(r)

SpecScroll == InitList /\ [][NextScroll]_vars

(* The list with changes of the filter. *)
NextList ==
    \/ \E g \in Genres : ChangeFilter(g)
    \/ loadMoreBooks
    \/ \E r \in bookList.inflight : FetchArrives(r)

SpecList == InitList /\ [][NextList]_vars

(* Every protected endpoint under every kind of Authorization header. *)
NextGuard ==
    \/ \E h \in Headers : ChangePassword("r1", h, encryptPassword("secret1"), encryptPassword("secret2"))
    \/ ChangePasswordSave("r1")
    \/ \E h \in Headers : CreateBook(h, "A")
    \/ \E h \in Headers, id \in BookIds : UpdateBook("r1", h, id, [title |-> "B"])
    \/ UpdateBookWrite("r1")
    \/ \E h \in Headers, id \in BookIds : DeleteBook("r1", h, id)
    \/ DeleteBookDoc("r1")
    \/ DeleteBookReviews("r1")
    \/ \E h \in Headers, b \in BookIds : CreateReview("r1", h, b, 1)
    \/ CreateReviewCheck("r1")
    \/ CreateReviewSave("r1")
    \/ \E h \in Headers, id \in ReviewIds : UpdateReview("r1", h, id, [rating |-> 5])
    \/ UpdateReviewWrite("r1")
    \/ \E h \in Headers, id \in ReviewIds : DeleteReview("r1", h, id)
    \/ DeleteReviewDoc("r1")
    \/ Observe

SpecGuard == InitStore /\ [][NextGuard]_vars

----------------------------------------------------------------------------
(* The frontend's session: context/ThemeContext.tsx (AuthProvider) *)

(* login / register of the AuthProvider and handleSubmit of the
   ResetPasswordPage, from the response on: the token of the response is
   put in localStorage; login and register dispatch LOGIN_SUCCESS, the
   reset page navigates to /books and dispatches nothing. *)
KeepSession ==
    /\ resp.op \in {"login", "register", "reset"}
    /\ "token" \in DOMAIN resp.body
    /\ storage' = resp.body.token
    /\ authState' = IF resp.op = "reset" THEN authState
                    ELSE authReducer(authState, [type |-> "LOGIN_SUCCESS", payload |-> resp.body])
    /\ resp' = NoResp
    /\ UNCHANGED <<Store, issued, now, env, bookList, nextTok, nextBook, nextRev, reqs, consumed, lastWritten>>

(* logout: the token is removed from localStorage and LOGOUT is
   dispatched; no request is sent. *)
Logout ==
    /\ Ready
    /\ storage # NoToken
    /\ storage' = NoToken
    /\ authState' = authReducer(authState, [type |-> "LOGOUT", payload |-> <<>>])
    /\ Silent
    /\ UNCHANGED <<Store, now, env, bookList, nextTok, nextBook, nextRev, reqs, consumed, lastWritten>>

(* The application is loaded again: the AuthProvider starts from
   initialState and its effect dispatches LOGIN_SUCCESS with the stored
   token and user. *)
Mount ==
    /\ Ready
    /\ authState' = IF storage = NoToken THEN initialState
                    ELSE authReducer(initialState,
                                     [type |-> "LOGIN_SUCCESS",
                                      payload |-> [id |-> storage.sub, token |-> storage]])
    /\ Silent
    /\ UNCHANGED <<Store, now, env, storage, bookList, nextTok, nextBook, nextRev, reqs, consumed, lastWritten>>

----------------------------------------------------------------------------
(* One account from registration on, next to an account that exists:
   every authentication flow, the password change included, with the
   tokens the server has issued. *)

InitAccount ==
    /\ users = <<[email |-> "b@x.com",
                  password |-> Bcrypt("secret1"),
                  resetPasswordToken |-> NoHash,
                  resetPasswordExpires |-> NoDate]>>
    /\ books = <<>>
    /\ reviews = <<>>
    /\ now = 0
    /\ nextTok = 0
    /\ nextBook = 0
    /\ nextRev = 0
    /\ reqs = [s \in Slots |-> Idle]
    /\ resp = NoResp
    /\ consumed = {}
    /\ lastWritten = <<0>>
    /\ env \in Envs
    /\ issued = {}
    /\ storage = NoToken
    /\ authState = initialState
    /\ bookList = NoPage

NewPasswords == {encryptPassword(p) : p \in Plain \cup {ShortPlain}}
OldPasswords == {encryptPassword(p) : p \in Plain}

(* The tokens a client can present: those it was sent. *)
IssuedHeaders == {Bearer(j) : j \in issued}

NextAccount ==
    \/ \E w \in OldPasswords : Register("r1", "a@x.com", w)
    \/ RegisterCreate("r1")
    \/ \E w \in OldPasswords : Login("a@x.com", w)
    \/ \E h \in IssuedHeaders, c \in OldPasswords, n \in NewPasswords : ChangePassword("r1", h, c, n)
    \/ ChangePasswordSave("r1")
    \/ ForgotPassword("r1", "a@x.com")
    \/ ForgotSave("r1")
    \/ \E t \in Tokens, w \in NewPasswords : ResetPassword("r1", t, w)
    \/ ResetSave("r1")
    \/ KeepSession
    \/ Logout
    \/ Mount
    \/ Tick
    \/ Observe

SpecAccount == InitAccount /\ [][NextAccount]_vars

----------------------------------------------------------------------------
(* Properties of the authentication flows *)

ResetAnswered == resp.op = "reset" /\ Decryptable(resp.req.password)

(* C2: a reset token is single-use.  A ResetPassword call that arrives
   with a token a successful reset has already used is answered 400
   'Invalid or expired reset token' and writes nothing, whatever
   ForgotPassword calls came in between. *)
C2_SingleUse ==
    (ResetAnswered /\ resp.req.reuse) =>
        /\ resp.status = 400
        /\ resp.body = Message("Invalid or expired reset token")
        /\ ~resp.wrote

C2_Witness ==
    /\ ResetAnswered /\ resp.req.reuse
    /\ resp.status = 400
    /\ nextTok = MaxTokens

(* C3 as claimed: ResetPassword(token, newPassword) succeeds if and only
   if, at the lookup, some user's stored hash is the token's hash and the
   clock is strictly before that user's expiry; every other call is
   answered 400 and writes nothing. *)
C3_Original ==
    ResetAnswered =>
        /\ (resp.status = 200) <=> resp.req.valid
        /\ resp.status # 200 => (resp.status = 400 /\ ~resp.wrote)

(* C3 as amended: the call succeeds if and only if the token is valid at
   the lookup and the new password has at least six characters; a call
   whose token is not valid is answered 400 'Invalid or expired reset
   token'; every failing call leaves every user record unchanged. *)
C3_Amended ==
    ResetAnswered =>
        /\ (resp.status = 200) <=>
              (resp.req.valid /\ passwordValid(decryptPassword(resp.req.password)))
        /\ ~resp.req.valid =>
              (resp.status = 400 /\ resp.body = Message("Invalid or expired reset token"))
        /\ resp.status # 200 => ~resp.wrote

(* The token's hash is the stored one, but the expiry has been reached. *)
C3_Witness ==
    /\ ResetAnswered
    /\ resp.status = 400
    /\ \E u \in UserIds : /\ users[u].resetPasswordToken = Sha256(resp.req.token)
                          /\ now >= users[u].resetPasswordExpires

(* C4: of the reset tokens generated for a user, ResetPassword accepts at
   most one at any time, and it is the one whose hash was saved last. *)
Accepted(t) == findOneByResetToken(Sha256(t)) # {}

C4_LastTokenOnly ==
    /\ Cardinality({t \in Tokens : Accepted(t)}) <= Cardinality(UserIds)
    /\ \A t \in Tokens : \A u \in findOneByResetToken(Sha256(t)) : lastWritten[u] = t

(* Two ForgotPassword calls interleaved: the token generated first was
   saved last, and it is the accepted one. *)
C4_Witness ==
    /\ nextTok = 2
    /\ consumed = {}
    /\ \A s \in Slots : reqs[s] = Idle
    /\ Accepted(1) /\ ~Accepted(2)
    /\ \E u \in UserIds : lastWritten[u] = 1

(* C9: Login with a well-formed email and a decryptable password has one
   answer, 401 'Invalid credentials', both when the email is not
   registered and when it is registered with another password. *)
LoginAnswered ==
    /\ resp.op = "login"
    /\ isEmail(resp.req.email)
    /\ Decryptable(resp.req.password)

WrongPassword ==
    \E u \in findOneByEmail(resp.req.email) :
        ~matchPassword(users[u], decryptPassword(resp.req.password))

C9_LoginGeneric ==
    (LoginAnswered /\ (findOneByEmail(resp.req.email) = {} \/ WrongPassword)) =>
        /\ resp.status = 401
        /\ resp.body = Message("Invalid credentials")

C9_Witness ==
    /\ LoginAnswered
    /\ WrongPassword
    /\ resp.status = 401
    /\ \E e \in Emails : findOneByEmail(e) = {}

(* C10: ForgotPassword answers every syntactically valid email with the
   same status and body, registered or not. *)
C10_ForgotGeneric ==
    (resp.op = "forgot" /\ isEmail(resp.req.email)) =>
        /\ resp.status = 200
        /\ resp.body = GenericForgotBody

----------------------------------------------------------------------------
(* Properties of the book and review handlers *)

OwnerOps == {"updateBook", "deleteBook", "updateReview", "deleteReview"}

(* The answered request was a PUT or DELETE, by an authenticated user, on
   a record that existed when the handler read it and had another owner. *)
ByNonOwner ==
    /\ resp.op \in OwnerOps
    /\ "caller" \in DOMAIN resp.req
    /\ resp.req.owner # 0
    /\ resp.req.owner # resp.req.caller

BodyValid ==
    IF resp.op = "updateBook" THEN bookBodyValid(resp.req.body)
    ELSE IF resp.op = "updateReview" THEN reviewBodyValid(resp.req.body)
    ELSE TRUE

(* C1 as claimed: a PUT or DELETE by an authenticated user on a book or
   review of another owner is answered 403 and changes nothing. *)
C1_Original ==
    ByNonOwner => (resp.status = 403 /\ ~resp.wrote)

(* C1 as amended: a DELETE, or a PUT whose body passes validation, by an
   authenticated user on a book or review of another owner is answered
   403; a PUT whose body fails validation is answered 400 'Validation
   errors'; neither succeeds and neither changes any record. *)
C1_Amended ==
    ByNonOwner =>
        /\ BodyValid => resp.status = 403
        /\ ~BodyValid => (resp.status = 400 /\ resp.body = Message("Validation errors"))
        /\ ~resp.wrote

(* A non-owner's DELETE of a book that has a review is refused. *)
C1_Witness ==
    /\ ByNonOwner
    /\ resp.op = "deleteBook"
    /\ resp.status = 403
    /\ resp.req.id \in DOMAIN books
    /\ \E r \in DOMAIN reviews : reviews[r].bookId = resp.req.id

(* C5: under every interleaving of review create, update and delete
   requests there is at most one stored review for each (bookId, userId)
   pair. *)
C5_OneReviewPerPair ==
    \A r1 \in DOMAIN reviews, r2 \in DOMAIN reviews :
        (reviews[r1].bookId = reviews[r2].bookId /\ reviews[r1].userId = reviews[r2].userId)
            => r1 = r2

(* Two users have reviewed the book and a PUT that would give one review
   the other's userId has just been turned down by the store. *)
C5_Witness ==
    /\ Cardinality(DOMAIN reviews) = 2
    /\ resp.op = "updateReview"
    /\ resp.status = 500
    /\ "userId" \in DOMAIN resp.req.body

(* C6: of two concurrent CreateReview calls by one user for one book, the
   call that does not create the review is answered 400 'You have already
   reviewed this book', not a generic server error. *)
C6_ConflictOnRace ==
    (/\ resp.op = "createReview"
     /\ "caller" \in DOMAIN resp.req
     /\ ratingValid(resp.req.body.rating)
     /\ resp.req.body.bookId \in DOMAIN books
     /\ resp.status # 201) =>
        /\ resp.status = 400
        /\ resp.body = Message("You have already reviewed this book")

(* C7: when the owner's DELETE of a book is answered 200 the book is gone
   and no review of any user refers to it, and a GET of an id whose book
   is gone is answered 404. *)
C7_Cascade ==
    /\ (resp.op = "deleteBook" /\ resp.status = 200) =>
          /\ resp.req.id \notin DOMAIN books
          /\ \A r \in DOMAIN reviews : reviews[r].bookId # resp.req.id
    /\ (resp.op = "getBook" /\ resp.req.id <= nextBook /\ resp.req.id \notin DOMAIN books) =>
          /\ resp.status = 404
          /\ resp.body = Message("Book not found")

(* The delete that has just been answered removed reviews, after two
   reviews had been written for the book. *)
C7_Witness ==
    /\ resp.op = "deleteBook"
    /\ resp.status = 200
    /\ resp.wrote
    /\ nextRev = MaxReviews
    /\ DOMAIN reviews = {}

ProtectedOps ==
    {"changePassword", "createBook", "updateBook", "deleteBook",
     "createReview", "updateReview", "deleteReview"}

(* No header, not a bearer header, no token, a token that is not the
   server's, an expired token, or a token of a user that does not exist. *)
Unauthenticated(h) ==
    \/ h = NoHeader
    \/ h[1] # "Bearer"
    \/ Len(h) < 2
    \/ h[2].sig # "server"
    \/ h[2].exp <= now
    \/ h[2].sub \notin UserIds

(* C8: every protected endpoint answers a request that carries no valid
   bearer token of an existing user with 401, and no user, book or review
   is changed. *)
C8_GuardFirst ==
    (resp.op \in ProtectedOps /\ Unauthenticated(resp.req.auth)) =>
        /\ resp.status = 401
        /\ ~resp.wrote
        /\ DOMAIN resp.req = {"auth"}

(* An expired token on the DELETE of a book that exists. *)
C8_Witness ==
    /\ resp.op = "deleteBook"
    /\ resp.status = 401
    /\ resp.req.auth = Bearer(Jwt(1, 0, "server"))
    /\ books # <<>>

----------------------------------------------------------------------------
(* Properties of the account flows *)

(* C11: in production the forgot-password response for a registered email
   carries no resetToken field; the plaintext reset token is in the
   response only when the server runs in a non-production environment. *)
C11_NoTokenInProduction ==
    (resp.op = "forgot" /\ env = "production") => "resetToken" \notin DOMAIN resp.body

(* A change or a reset of the password has just been answered 200. *)
PasswordSet == resp.op \in {"changePassword", "reset"} /\ resp.status = 200

SetFor == IF resp.op = "reset" THEN resp.body.id ELSE resp.req.auth[2].sub

SetTo ==
    IF resp.op = "reset" THEN decryptPassword(resp.req.password)
    ELSE decryptPassword(resp.req.new)

(* C12: after a successful ChangePassword(current, new) or
   ResetPassword(token, new), Login with the account's email succeeds with
   the new password and is answered 401 with every other password, the old
   one included. *)
C12_NewPasswordOnly ==
    PasswordSet =>
        \A p \in Plain \cup {ShortPlain} :
            LoginReply(findOneByEmail(users[SetFor].email), p).status
                = IF p = SetTo THEN 200 ELSE 401

(* A change to a password other than the current one, after a reset. *)
C12_Witness ==
    /\ PasswordSet
    /\ resp.op = "changePassword"
    /\ decryptPassword(resp.req.current) # decryptPassword(resp.req.new)
    /\ consumed # {}

ChangeAnswered == resp.op = "changePassword" /\ "new" \in DOMAIN resp.req

(* C13: ChangePassword with a new password equal to the current one is
   answered with a validation error (400) and the stored hash is left
   unchanged, whoever the caller of the endpoint is. *)
C13_SamePasswordRejected ==
    (ChangeAnswered /\ resp.req.new = resp.req.current) =>
        /\ resp.status = 400
        /\ ~resp.wrote

ShortNew ==
    \/ ChangeAnswered /\ ~passwordValid(decryptPassword(resp.req.new))
    \/ ResetAnswered /\ ~passwordValid(decryptPassword(resp.req.password))

(* C14: ChangePassword and ResetPassword with a new plaintext password
   shorter than six characters are answered 400 and leave the stored
   password hash and the reset-token fields unchanged. *)
C14_ShortPasswordRejected ==
    ShortNew => (resp.status = 400 /\ ~resp.wrote)

(* C15: ChangePassword by an authenticated user with a current password
   that is not the one stored is answered 400 'Current password is
   incorrect', the stored hash is left unchanged, and the password of the
   account still logs in. *)
C15_WrongCurrentRejected ==
    (/\ ChangeAnswered
     /\ Decryptable(resp.req.current) /\ Decryptable(resp.req.new)
     /\ ~resp.req.verified) =>
        /\ resp.status = 400
        /\ resp.body = Message("Current password is incorrect")
        /\ ~resp.wrote
        /\ LET doc == users[resp.req.auth[2].sub] IN
           \A p \in Plain :
               doc.password = Bcrypt(p) =>
                   LoginReply(findOneByEmail(doc.email), p).status = 200

(* The stored password is secret2 and the call supplies secret1. *)
C15_Witness ==
    /\ ChangeAnswered
    /\ ~resp.req.verified
    /\ resp.status = 400
    /\ users[resp.req.auth[2].sub].password = Bcrypt("secret2")
    /\ decryptPassword(resp.req.current) = "secret1"

(* C16: a session token that was issued is accepted by the guard in every
   later state in which it has not expired: no password change, password
   reset or logout revokes it. *)
C16_NoRevocation ==
    \A j \in issued : now < j.exp => protect(Bearer(j)).ok

(* The password has just been changed with a token issued earlier, after
   a reset, and that token is still accepted. *)
C16_Witness ==
    /\ PasswordSet
    /\ resp.op = "changePassword"
    /\ consumed # {}
    /\ resp.req.auth[2] \in issued
    /\ resp.req.auth[2].exp < now + JwtLifetime
    /\ protect(resp.req.auth).ok

(* C17: the token in a successful register, login or reset response
   belongs to the user the response names, who is the user of the
   request; presented to the guard before its expiry, an issued token
   resolves to the user it carries and to no other. *)
C17_TokenIdentity ==
    /\ "token" \in DOMAIN resp.body =>
          LET g == protect(Bearer(resp.body.token)) IN
          /\ g.ok
          /\ g.user = resp.body.id
          /\ users[g.user].email = resp.body.email
          /\ resp.op \in {"login", "register"} => resp.req.email = resp.body.email
          /\ resp.op = "reset" => lastWritten[g.user] = resp.req.token
    /\ \A j \in issued : now < j.exp => protect(Bearer(j)).user = j.sub

(* A reset has just answered with a token, next to the other account. *)
C17_Witness ==
    /\ resp.op = "reset"
    /\ "token" \in DOMAIN resp.body
    /\ Cardinality(UserIds) = 2
    /\ Cardinality(issued) >= 2

(* C18: the stored password of every user is the bcrypt hash of a
   plaintext, never the plaintext, after every sequence of Register,
   ChangePassword, ForgotPassword and ResetPassword. *)
C18_PasswordHashed ==
    \A u \in UserIds : users[u].password \in {Bcrypt(p) : p \in Plain \cup {ShortPlain}}

(* The account was registered, its password reset after a forgot-password
   call, and then changed. *)
C18_Witness ==
    /\ Cardinality(UserIds) = 2
    /\ consumed # {}
    /\ PasswordSet
    /\ resp.op = "changePassword"
    /\ resp.wrote

EmailsDistinct ==
    \A u1 \in UserIds, u2 \in UserIds : users[u1].email = users[u2].email => u1 = u2

(* A step that answers a Register call whose email is the email of a
   stored user fails and creates no user. *)
RegisterTakenFails ==
    (/\ resp = NoResp
     /\ resp'.op = "register"
     /\ \E u \in UserIds : users[u].email = resp'.req.email) =>
        /\ resp'.status \in {400, 500}
        /\ users' = users

(* C19: under every interleaving of Register calls no two stored users
   have the same email, and a Register call for an email that is
   registered fails and creates no user, also when it passed the
   existence check before the other call's insert. *)
C19_EmailUnique == []EmailsDistinct /\ [][RegisterTakenFails]_vars

(* The loser of a race between two Register calls for one new email. *)
C19_Witness ==
    /\ resp.op = "register"
    /\ resp.status = 500
    /\ Cardinality({u \in UserIds : users[u].email = resp.req.email}) = 1

(* C20: for every user the reset-token hash and the reset-token expiry
   are both present or both absent, after every sequence of
   ForgotPassword, ResetPassword and ChangePassword. *)
C20_ResetFieldsPaired ==
    \A u \in UserIds :
        (users[u].resetPasswordToken = NoHash) <=> (users[u].resetPasswordExpires = NoDate)

(* A reset cleared the fields, a later forgot-password call set them
   again, and the password has just been changed. *)
C20_Witness ==
    /\ consumed # {}
    /\ \E u \in UserIds : /\ users[u].resetPasswordToken # NoHash
                          /\ users[u].resetPasswordExpires # NoDate
    /\ PasswordSet
    /\ resp.op = "changePassword"

----------------------------------------------------------------------------
(* Properties of the stored records *)

(* C21: whenever a handler answers with an error status the stored
   records are as before the request, also when a store operation fails
   part-way: no step that answers with an error writes, and a DELETE of
   a book that is answered with an error leaves the book stored. Requests
   run one at a time, so the book was stored when the request arrived
   exactly if the request records an owner. *)
C21_NoPartialSuccess ==
    (resp # NoResp /\ resp.status >= 400) =>
        /\ ~resp.wrote
        /\ (resp.op = "deleteBook" /\ "owner" \in DOMAIN resp.req /\ resp.req.owner # 0) =>
               resp.req.id \in DOMAIN books

(* C24: in every reachable state every stored review has a rating
   between 1 and 5. *)
C24_RatingInRange ==
    \A r \in DOMAIN reviews : reviews[r].rating \in MinRating .. MaxRating

(* C25: under every interleaving of CreateReview and DeleteBook requests,
   once all requests have completed no stored review refers to a book that
   is no longer stored. *)
C25_NoOrphanReview ==
    (\A s \in Slots : reqs[s] = Idle) =>
        \A r \in DOMAIN reviews : reviews[r].bookId \in DOMAIN books

(* C26: no step changes the addedBy of a stored book or the userId or the
   bookId of a stored review: ownership is fixed at creation, whatever
   the body of a PUT request. *)
C26_OwnershipFixed ==
    [][/\ \A b \in DOMAIN books \cap DOMAIN books' :
              books'[b].addedBy = books[b].addedBy
       /\ \A r \in DOMAIN reviews \cap DOMAIN reviews' :
              /\ reviews'[r].userId = reviews[r].userId
              /\ reviews'[r].bookId = reviews[r].bookId]_vars

(* C27: a ForgotPassword call for a registered email changes only that
   user's reset-token hash and expiry; every stored password hash and
   email is as before, so each password that logged in still does. *)
C27_ForgotFrame ==
    [][(resp' # NoResp /\ resp'.op = "forgot") =>
          \A u \in UserIds :
              /\ users'[u].password = users[u].password
              /\ users'[u].email = users[u].email
              /\ \A p \in Plain : matchPassword(users'[u], p) = matchPassword(users[u], p)
              /\ users'[u] # users[u] => users[u].email = resp'.req.email]_vars

(* The call has stored a reset token for a user whose password is the
   one registered. *)
C27_Witness ==
    /\ resp # NoResp
    /\ resp.op = "forgot"
    /\ resp.status = 200
    /\ "resetToken" \in DOMAIN resp.body
    /\ \E u \in UserIds : /\ users[u].email = resp.req.email
                          /\ users[u].resetPasswordToken = Sha256(resp.body.resetToken)
                          /\ users[u].password \in {Bcrypt(p) : p \in Plain}

----------------------------------------------------------------------------
(* Properties of the guard's control flow *)

(* C28: for every request the guard does exactly one thing: it calls
   next() once with req.user set and sends nothing, or it sends one 401
   response and does not call next(). *)
C28_ExactlyOne ==
    \A h \in Headers :
        LET t == protectTrace(h) IN
        /\ Len(t) = 1
        /\ t[1].kind = "next" <=> protect(h).ok
        /\ t[1].kind = "next" => t[1].user = protect(h).user /\ t[1].user \in UserIds
        /\ t[1].kind = "send" => t[1].status = 401 /\ t[1].message = protect(h).message

(* A DELETE with `Bearer` and no token has been turned down, after a
   DELETE with a user's token went through the guard and removed a book. *)
C28_Witness ==
    /\ resp.op = "deleteBook"
    /\ resp.status = 401
    /\ resp.req.auth = <<"Bearer">>
    /\ protectTrace(resp.req.auth) = <<Send401("Not authorized, token failed")>>
    /\ nextBook > 0
    /\ books = <<>>

----------------------------------------------------------------------------
(* Properties of the frontend *)

Least(a, b) == IF a < b THEN a ELSE b
Most(a, b) == IF a > b THEN a ELSE b

(* C22: GET /api/books with page N and limit L, 1 <= L <= 50, page 1 and
   limit 5 when absent, over T matching books returns
   min(L, max(0, T - (N-1)*L)) books, at most L, with currentPage = N,
   totalBooks = T and totalPages = ceil(T / L). *)
C22_Pagination ==
    (resp.op = "getBooks" /\ listQueryValid(resp.req.page, resp.req.limit)) =>
        LET N == IF resp.req.page = NoParam THEN 1 ELSE resp.req.page[1]
            L == IF resp.req.limit = NoParam THEN 5 ELSE resp.req.limit[1]
            T == Cardinality({b \in DOMAIN books :
                                 resp.req.genre \in {"", books[b].genre}})
        IN /\ resp.status = 200
           /\ Len(resp.body.books) = Least(L, Most(0, T - (N - 1) * L))
           /\ Len(resp.body.books) <= L
           /\ resp.body.currentPage = N
           /\ resp.body.totalBooks = T
           /\ resp.body.totalPages = (T + L - 1) \div L
           /\ \A i \in 1 .. Len(resp.body.books) :
                  resp.req.genre \in {"", books[resp.body.books[i]].genre}

(* 25 matching books and limit 12: three pages, the third holds one book. *)
C22_Witness ==
    /\ resp.op = "getBooks"
    /\ resp.status = 200
    /\ resp.req = [page |-> <<3>>, limit |-> <<12>>, genre |-> "Fiction"]
    /\ resp.body.totalBooks = 25
    /\ resp.body.totalPages = 3
    /\ Len(resp.body.books) = 1

(* C23: after a fetch hasMore holds exactly when the fetched page is not
   the last one, and once hasMore is false, with no request unanswered,
   the list holds every book of the collection: repeated load-more
   actions end with the whole list displayed. *)
C23_ScrollComplete ==
    (bookList.inflight = {} /\ ~bookList.hasMore) =>
        /\ Range(bookList.books) = DOMAIN books
        /\ Len(bookList.books) = bookList.totalBooks

(* C30: for every order in which answers arrive, once no request is in
   flight the displayed list has no book twice and only books of the
   current filter. *)
C30_ListOfCurrentFilter ==
    bookList.inflight = {} =>
        /\ \A i, j \in DOMAIN bookList.books :
               bookList.books[i] = bookList.books[j] => i = j
        /\ \A i \in DOMAIN bookList.books :
               bookList.genre \in {"", books[bookList.books[i]].genre}

(* C29: after every sequence of login, register, logout and successful
   reset-page submissions the AuthContext state agrees with localStorage:
   isAuthenticated holds, with the user set, exactly when localStorage
   holds a token. *)
C29_SessionAgrees ==
    /\ authState.isAuthenticated <=> storage # NoToken
    /\ authState.isAuthenticated => authState.user # 0

====
